---- MODULE Spec2Model ----
(***************************************************************************)
(* hubscrape (src/hscrape/__main__.py): the entry point main, Commit       *)
(* Search (query_commits), Diff Fetcher (get_commit_diff) and              *)
(* extract_commit_details, as a state machine.                             *)
(*                                                                         *)
(*   Spec      one invocation after another of the tool against one output *)
(*             directory, from the loaded wordlist on (line 166).          *)
(*   FairSpec  Spec with the progress a sequential Python program makes.   *)
(*   SpecRerun the get_commit_diff calls of a first invocation, recorded,  *)
(*             and the same calls, answered alike, of a second one.        *)
(*   SpecLoad  the wordlist loading loop of main (lines 155-164).          *)
(*   SpecConc  two processes inside get_commit_diff at the granularity of  *)
(*             its system calls, sharing the output directory.             *)
(*                                                                         *)
(* Strings the code transforms (repository names, file contents) are       *)
(* tuples of one-character strings; opaque strings (diff texts, query      *)
(* terms) are TLA+ strings.                                                *)
(***************************************************************************)
EXTENDS Naturals, Sequences, FiniteSets

VARIABLES
    \* ---- the filesystem and the command line
    fs,               \* output directory: path -> file content, Absent if no file
    opens,            \* history: path -> number of open(path, "w") that succeeded
    output_dir,       \* args.output: None or the directory
    dir_ok,           \* whether that directory exists (open(.., "w") succeeds)
    query_wordlist,   \* main: the loaded query terms
    \* ---- main and query_commits
    pc,               \* position of the process: "main" at the map of line 166,
                      \*   "fetch" in the map of 91, "returned" at the return of
                      \*   query_commits, "done", "crashed"
    next_term,        \* main: index of the next element the map at 166 takes
    uncaught,         \* the exception that ended the process, None if none
    search_response,  \* query_commits: response (None before the first search)
    commits,          \* query_commits: the extracted (repository, hash) pairs
    next_commit,      \* query_commits: index of the next commit the lazy map takes
    contents,         \* query_commits: contents, and its return value afterwards
    grabbed,          \* the N last printed in "Managed to grab N commits!"
    \* ---- what happened (history)
    searched,         \* queries query_commits was called with, this invocation
    calls,            \* commits get_commit_diff was called with, this query
    rets,             \* what each of those calls returned
    \* ---- SpecRerun
    run_no,           \* 1: first invocation, 2: the re-run
    trace,            \* first invocation: <<commit, response, returned>> per call
    call_no,          \* get_commit_diff calls made so far by the re-run
    \* ---- SpecLoad
    wordlist_files,   \* the files at query_wordlist_paths, in argument order
    next_file,        \* index of the next file the for loop at 157 takes
    reported,         \* the count printed in "Loaded N query terms", None before
    \* ---- SpecConc
    cpc,              \* per process: position inside get_commit_diff
    ccommit,          \* per process: the (repository, hash) of the call
    ctext,            \* per process: response.text of the call
    cseen,            \* per process: what was at file_path when line 121 looked
    cborn,            \* per process: whether file_path existed when the call began
    ccalls,           \* per process: calls made so far
    cret              \* per process: what the last call returned

progvars == <<pc, next_term, uncaught, search_response, commits, next_commit,
              contents, grabbed, searched, calls, rets>>
envvars  == <<fs, opens, output_dir, dir_ok, query_wordlist>>
rerunvars == <<run_no, trace, call_no>>
loadvars == <<wordlist_files, next_file, reported>>
concvars == <<cpc, ccommit, ctext, cseen, cborn, ccalls, cret>>
vars == <<envvars, progvars, rerunvars, loadvars, concvars>>

----------------------------------------------------------------------------
(* Bounds *)

MaxTerms == 2      \* longest wordlist of Spec
MaxItems == 2      \* longest 'items' array of a search response
RerunCalls == 2    \* most get_commit_diff calls of an invocation of SpecRerun
MaxFiles == 2      \* most wordlist files of SpecLoad
MaxFileLen == 3    \* longest wordlist file of SpecLoad, in characters
MaxCalls == 2      \* get_commit_diff calls per process of SpecConc

----------------------------------------------------------------------------
(* Values *)

None == "None"
Absent == "absent"
Empty == "empty"          \* a file open(.., "w") has created or truncated
Dir == "out"

Terms == {"t1", "t2"}
Bodies == {"d1", "d2"}    \* diff texts

RepoA == <<"a", "/", "b", "_", "c">>
RepoB == <<"a", "_", "b", "/", "c">>
HashD == <<"d">>
HashE == <<"e">>
Commits == {<<RepoA, HashD>>, <<RepoB, HashE>>}

RECURSIVE SeqsUpTo(_, _)
SeqsUpTo(S, n) ==
    IF n = 0 THEN {<<>>}
    ELSE LET shorter == SeqsUpTo(S, n - 1)
         IN  shorter \cup {Append(s, x) : s \in {t \in shorter : Len(t) = n - 1}, x \in S}

Last(s) == s[Len(s)]

(* requests.codes.ok *)
codes_ok == 200

Statuses == {200, 204, 304, 404}

Is2xx(status) == status >= 200 /\ status < 300

(* Response.raise_for_status(): HTTPError for a 4xx or 5xx status, nothing else *)
raise_for_status(status) == status >= 400 /\ status < 600

----------------------------------------------------------------------------
(* get_commit_diff: the file path and the filesystem *)

(* repository.replace('/', '_') *)
ReplaceSlash(repository) ==
    [i \in DOMAIN repository |-> IF repository[i] = "/" THEN "_" ELSE repository[i]]

(* os.path.join(output_dir, f"{repository.replace('/', '_')}_{commit_hash}.txt") *)
FilePath(dir, repository, commit_hash) ==
    <<dir, "/">> \o ReplaceSlash(repository) \o <<"_">> \o commit_hash
        \o <<".", "t", "x", "t">>

Paths == {FilePath(Dir, c[1], c[2]) : c \in Commits}

(* Faulty variant of PathExists: the check of line 121 never finds the file *)
PathExists_never(files, file_path) == FALSE

(* os.path.exists(file_path) *)
PathExists(files, file_path) == files[file_path] # Absent

(* Faulty variant of WriteFile: the file is created and the text never reaches it *)
WriteFile_no_text(files, file_path, text) == [files EXCEPT ![file_path] = Empty]

(* with open(file_path, "w") as json_file: json_file.write(response.text) *)
WriteFile(files, file_path, text) == [files EXCEPT ![file_path] = text]

DiffResponses ==
    [kind : {"response"}, status : Statuses, text : Bodies]
        \cup {[kind |-> "raise", status |-> 0, text |-> None]}

(* Whether lines 111-112 raise: requests.get raises, or raise_for_status does *)
RequestFails(response) ==
    response.kind = "raise" \/ raise_for_status(response.status)

(* get_commit_diff run to its return:
   <<returned value, filesystem after, whether it opened the file for writing>>.
   The try of line 110 spans the request and the file write alike. *)
get_commit_diff(files, dir, writable, repository, commit_hash, response) ==
    IF RequestFails(response) THEN <<None, files, FALSE>>
    ELSE IF dir = None THEN <<response.text, files, FALSE>>
    ELSE LET file_path == FilePath(dir, repository, commit_hash)
         IN  IF PathExists(files, file_path) THEN <<response.text, files, FALSE>>
             ELSE IF ~writable THEN <<None, files, FALSE>>  \* open raises, caught at 130
             ELSE <<response.text, WriteFile(files, file_path, response.text), TRUE>>

----------------------------------------------------------------------------
(* query_commits: the search response *)

Missing == <<"missing">>

(* A search result item; Missing stands for a key that is not there *)
Items ==
    {[full_name |-> c[1], sha |-> c[2]] : c \in Commits}
        \cup {[full_name |-> Missing, sha |-> HashD], [full_name |-> RepoA, sha |-> Missing]}

(* Faulty variant of WellFormed: a missing key is tolerated (item.get) *)
WellFormed_lenient(item) == TRUE

(* Whether item["repository"]["full_name"] and item["sha"] both are there *)
WellFormed(item) == item.full_name # Missing /\ item.sha # Missing

SearchBodies ==
    {[json |-> FALSE, has_items |-> FALSE, items |-> <<>>],
     [json |-> TRUE, has_items |-> FALSE, items |-> <<>>]}
        \cup [json : {TRUE}, has_items : {TRUE}, items : SeqsUpTo(Items, MaxItems)]

NoBody == [json |-> FALSE, has_items |-> FALSE, items |-> <<>>]
NoResponse == [kind |-> "none", status |-> 0, body |-> NoBody]

SearchResponses ==
    [kind : {"response"}, status : Statuses, body : SearchBodies]
        \cup {[kind |-> "raise", status |-> 0, body |-> NoBody]}

(* extract_commit_details *)
extract_commit_details(item) == <<item.full_name, item.sha>>

(* Faulty variant of SearchRaises: the body is parsed before the status is looked at *)
SearchRaises_parse_first(response) ==
    IF response.kind = "raise" THEN "ConnectionError"
    ELSE IF ~response.body.json THEN "JSONDecodeError"
    ELSE IF response.status # codes_ok THEN None
    ELSE IF ~response.body.has_items THEN "KeyError"
    ELSE IF \E i \in DOMAIN response.body.items : ~WellFormed(response.body.items[i])
         THEN "KeyError"
    ELSE None

(* Faulty variant of SearchRaises: response.raise_for_status() in place of line 79 *)
SearchRaises_raise_for_status(response) ==
    IF response.kind = "raise" THEN "ConnectionError"
    ELSE IF raise_for_status(response.status) THEN "HTTPError"
    ELSE IF response.status # codes_ok THEN None
    ELSE IF ~response.body.json THEN "JSONDecodeError"
    ELSE IF ~response.body.has_items THEN "KeyError"
    ELSE IF \E i \in DOMAIN response.body.items : ~WellFormed(response.body.items[i])
         THEN "KeyError"
    ELSE None

(* The exception lines 77-89 raise on this response, None if they raise none *)
SearchRaises(response) ==
    IF response.kind = "raise" THEN "ConnectionError"
    ELSE IF response.status # codes_ok THEN None
    ELSE IF ~response.body.json THEN "JSONDecodeError"
    ELSE IF ~response.body.has_items THEN "KeyError"
    ELSE IF \E i \in DOMAIN response.body.items : ~WellFormed(response.body.items[i])
         THEN "KeyError"
    ELSE None

----------------------------------------------------------------------------
(* Initial states *)

Wordlists(n) == SeqsUpTo(Terms, n)

ProgInit(start) ==
    /\ pc = start
    /\ next_term = 1
    /\ uncaught = None
    /\ search_response = NoResponse
    /\ commits = <<>>
    /\ next_commit = 1
    /\ contents = <<>>
    /\ grabbed = None
    /\ searched = <<>>
    /\ calls = <<>>
    /\ rets = <<>>

EnvInit(n) ==
    /\ fs = [p \in Paths |-> Absent]
    /\ opens = [p \in Paths |-> 0]
    /\ output_dir \in {None, Dir}
    /\ dir_ok \in BOOLEAN
    /\ output_dir = None => dir_ok
    /\ query_wordlist \in Wordlists(n)

RerunIdle == run_no = 1 /\ trace = <<>> /\ call_no = 0

LoadIdle == wordlist_files = <<>> /\ next_file = 1 /\ reported = None

Procs == {"p1", "p2"}

ConcIdle ==
    /\ cpc = [p \in Procs |-> "idle"]
    /\ ccommit = [p \in Procs |-> <<RepoA, HashD>>]
    /\ ctext = [p \in Procs |-> None]
    /\ cseen = [p \in Procs |-> None]
    /\ cborn = [p \in Procs |-> FALSE]
    /\ ccalls = [p \in Procs |-> 0]
    /\ cret = [p \in Procs |-> None]

Init == EnvInit(MaxTerms) /\ ProgInit("main") /\ RerunIdle /\ LoadIdle /\ ConcIdle

----------------------------------------------------------------------------
(* main and query_commits, one invocation *)

(* query_commits from its call by the map of line 166 to the first
   get_commit_diff (lines 73-98), or to its return at 85, or to the exception *)
QuerySearch(response) ==
    /\ pc = "main"
    /\ next_term <= Len(query_wordlist)
    /\ searched' = Append(searched, query_wordlist[next_term])
    /\ search_response' = response
    /\ LET exc == SearchRaises(response)
       IN  IF exc # None
           THEN /\ pc' = "crashed"
                /\ uncaught' = exc
                /\ UNCHANGED <<commits, contents>>
           ELSE IF response.status # codes_ok
           THEN /\ pc' = "returned"
                /\ contents' = <<>>
                /\ UNCHANGED <<uncaught, commits>>
           ELSE /\ pc' = "fetch"
                /\ commits' = [i \in DOMAIN response.body.items |->
                                  extract_commit_details(response.body.items[i])]
                /\ UNCHANGED <<uncaught, contents>>
    /\ UNCHANGED <<next_term, next_commit, grabbed, calls, rets>>
    /\ UNCHANGED envvars

(* Faulty variant of Keep: the comprehension of line 100 without its condition *)
Keep_all(kept, diff) == Append(kept, diff)

(* Line 100: [diff for diff in commit_diffs if diff is not None], one diff *)
Keep(kept, diff) == IF diff # None THEN Append(kept, diff) ELSE kept

(* One element of the lazy map of lines 91-100: get_commit_diff on the next
   commit, kept in contents unless it is None *)
FetchDiff(response) ==
    /\ pc = "fetch"
    /\ next_commit <= Len(commits)
    /\ LET commit == commits[next_commit]
           out == get_commit_diff(fs, output_dir, dir_ok, commit[1], commit[2], response)
       IN  /\ fs' = out[2]
           /\ opens' = IF out[3]
                        THEN [opens EXCEPT ![FilePath(output_dir, commit[1], commit[2])] = @ + 1]
                        ELSE opens
           /\ calls' = Append(calls, commit)
           /\ rets' = Append(rets, out[1])
           /\ contents' = Keep(contents, out[1])
    /\ next_commit' = next_commit + 1
    /\ UNCHANGED <<output_dir, dir_ok, query_wordlist>>
    /\ UNCHANGED <<pc, next_term, uncaught, search_response, commits, grabbed, searched>>

(* Lines 102-104: the summary line and the return *)
QueryReturn ==
    /\ pc = "fetch"
    /\ next_commit > Len(commits)
    /\ grabbed' = Len(contents)
    /\ pc' = "returned"
    /\ UNCHANGED <<next_term, uncaught, search_response, commits, next_commit,
                   contents, searched, calls, rets>>
    /\ UNCHANGED envvars

(* The map of line 166 has its element; the locals of query_commits are gone *)
NextQuery ==
    /\ pc = "returned"
    /\ pc' = "main"
    /\ next_term' = next_term + 1
    /\ search_response' = NoResponse
    /\ commits' = <<>>
    /\ next_commit' = 1
    /\ contents' = <<>>
    /\ grabbed' = None
    /\ calls' = <<>>
    /\ rets' = <<>>
    /\ UNCHANGED <<uncaught, searched>>
    /\ UNCHANGED envvars

(* The map of line 166 is exhausted: main returns *)
MainDone ==
    /\ pc = "main"
    /\ next_term > Len(query_wordlist)
    /\ pc' = "done"
    /\ UNCHANGED <<next_term, uncaught, search_response, commits, next_commit,
                   contents, grabbed, searched, calls, rets>>
    /\ UNCHANGED envvars

(* The tool is invoked again against the same output directory *)
Invoke(wordlist) ==
    /\ pc \in {"done", "crashed"}
    /\ query_wordlist' = wordlist
    /\ pc' = "main"
    /\ next_term' = 1
    /\ uncaught' = None
    /\ search_response' = NoResponse
    /\ commits' = <<>>
    /\ next_commit' = 1
    /\ contents' = <<>>
    /\ grabbed' = None
    /\ searched' = <<>>
    /\ calls' = <<>>
    /\ rets' = <<>>
    /\ UNCHANGED <<fs, opens, output_dir, dir_ok>>

Idle == UNCHANGED <<rerunvars, loadvars, concvars>>

Next ==
    \/ \E response \in SearchResponses : QuerySearch(response) /\ Idle
    \/ \E response \in DiffResponses : FetchDiff(response) /\ Idle
    \/ QueryReturn /\ Idle
    \/ NextQuery /\ Idle
    \/ MainDone /\ Idle
    \/ \E wordlist \in Wordlists(MaxTerms) : Invoke(wordlist) /\ Idle

Spec == Init /\ [][Next]_vars

(* One invocation: a sequential process takes its next step *)
RunOnce ==
    \/ \E response \in SearchResponses : QuerySearch(response) /\ Idle
    \/ \E response \in DiffResponses : FetchDiff(response) /\ Idle
    \/ QueryReturn /\ Idle
    \/ NextQuery /\ Idle
    \/ MainDone /\ Idle

(* The process is single-threaded and every call it makes is taken to return:
   while a step is possible, it takes one *)
FairSpec == Init /\ [][RunOnce]_vars /\ WF_vars(RunOnce)

----------------------------------------------------------------------------------------------------------------------------------------
(* SpecRerun: the tool run twice with the same arguments against the same
   output directory, the endpoints answering the second run as the first.
   A run is taken as the get_commit_diff calls it makes: which calls those
   are is decided by the search responses alone (QuerySearch reads no file),
   so the second run makes the calls of the first, in the same order. *)

InitRerun ==
    /\ fs = [p \in Paths |-> Absent]
    /\ opens = [p \in Paths |-> 0]
    /\ output_dir \in {None, Dir}
    /\ dir_ok \in BOOLEAN
    /\ output_dir = None => dir_ok
    /\ query_wordlist = <<>>
    /\ ProgInit("fetch")
    /\ RerunIdle
    /\ LoadIdle
    /\ ConcIdle

(* get_commit_diff called by the run in progress *)
RerunFetch(commit, response) ==
    LET out == get_commit_diff(fs, output_dir, dir_ok, commit[1], commit[2], response)
    IN  /\ fs' = out[2]
        /\ opens' = IF out[3]
                     THEN [opens EXCEPT ![FilePath(output_dir, commit[1], commit[2])] = @ + 1]
                     ELSE opens
        /\ calls' = Append(calls, commit)
        /\ rets' = Append(rets, out[1])

(* A call of the first run, recorded with its response and what it returned *)
FirstRunCall(commit, response) ==
    /\ run_no = 1
    /\ Len(trace) < RerunCalls
    /\ RerunFetch(commit, response)
    /\ trace' = Append(trace, <<commit, response, Last(rets')>>)
    /\ UNCHANGED <<run_no, call_no>>

(* The first run has ended; the tool is invoked again *)
Rerun ==
    /\ run_no = 1
    /\ run_no' = 2
    /\ call_no' = 0
    /\ calls' = <<>>
    /\ rets' = <<>>
    /\ UNCHANGED <<fs, opens, trace>>

(* The call of the second run: the commit and the response of the call of
   the same rank of the first *)
SecondRunCall ==
    /\ run_no = 2
    /\ call_no < Len(trace)
    /\ RerunFetch(trace[call_no + 1][1], trace[call_no + 1][2])
    /\ call_no' = call_no + 1
    /\ UNCHANGED <<run_no, trace>>

RerunRest ==
    UNCHANGED <<output_dir, dir_ok, query_wordlist, pc, next_term, uncaught,
                search_response, commits, next_commit, contents, grabbed, searched,
                loadvars, concvars>>

NextRerun ==
    \/ \E commit \in Commits, response \in DiffResponses :
           FirstRunCall(commit, response) /\ RerunRest
    \/ Rerun /\ RerunRest
    \/ SecondRunCall /\ RerunRest

SpecRerun == InitRerun /\ [][NextRerun]_vars

----------------
(* SpecLoad: main, lines 155-164 *)

Newline == "\n"
Chars == {"a", Newline}
MissingFile == <<"no such file">>

(* str.splitlines() of a text whose only line boundary is "\n": the pieces
   between boundaries, without them; no empty piece after a final boundary *)
RECURSIVE splitlines(_)
splitlines(text) ==
    IF text = <<>> THEN <<>>
    ELSE LET breaks == {i \in DOMAIN text : text[i] = Newline}
             eol == IF breaks = {} THEN Len(text) + 1
                    ELSE CHOOSE i \in breaks : \A j \in breaks : i <= j
         IN  <<SubSeq(text, 1, eol - 1)>> \o splitlines(SubSeq(text, eol + 1, Len(text)))

(* Faulty variant of extend: query_wordlist = lines *)
extend_assign(list, lines) == lines

(* query_wordlist.extend(lines) *)
extend(list, lines) == list \o lines

InitLoad ==
    /\ fs = [p \in Paths |-> Absent]
    /\ opens = [p \in Paths |-> 0]
    /\ output_dir = None
    /\ dir_ok = TRUE
    /\ query_wordlist = <<>>
    /\ ProgInit("load")
    /\ RerunIdle
    /\ ConcIdle
    /\ wordlist_files \in
           SeqsUpTo(SeqsUpTo(Chars, MaxFileLen) \cup {MissingFile}, MaxFiles) \ {<<>>}
    /\ next_file = 1
    /\ reported = None

(* One turn of the for loop of line 157: open, read, splitlines, extend *)
LoadFile ==
    /\ pc = "load"
    /\ next_file <= Len(wordlist_files)
    /\ IF wordlist_files[next_file] = MissingFile
       THEN /\ pc' = "crashed"
            /\ uncaught' = "FileNotFoundError"
            /\ UNCHANGED <<query_wordlist, next_file>>
       ELSE /\ query_wordlist' = extend(query_wordlist, splitlines(wordlist_files[next_file]))
            /\ next_file' = next_file + 1
            /\ UNCHANGED <<pc, uncaught>>
    /\ UNCHANGED <<fs, opens, output_dir, dir_ok, wordlist_files, reported>>
    /\ UNCHANGED <<next_term, search_response, commits, next_commit, contents,
                   grabbed, searched, calls, rets>>
    /\ UNCHANGED <<rerunvars, concvars>>

(* Lines 161-164: "Loaded N query terms from M wordlists." *)
ReportLoaded ==
    /\ pc = "load"
    /\ next_file > Len(wordlist_files)
    /\ reported' = Len(query_wordlist)
    /\ pc' = "loaded"
    /\ UNCHANGED <<envvars, wordlist_files, next_file>>
    /\ UNCHANGED <<next_term, uncaught, search_response, commits, next_commit,
                   contents, grabbed, searched, calls, rets>>
    /\ UNCHANGED <<rerunvars, concvars>>

NextLoad == LoadFile \/ ReportLoaded

SpecLoad == InitLoad /\ [][NextLoad]_vars

----------------------------------------------------------------------------
(* SpecConc: two invocations of the tool in parallel against one output
   directory, each a sequence of get_commit_diff calls (what the search
   returned to each is left open), stepped at its system calls *)

Garbled == "garbled"      \* bytes of two texts flushed through two descriptors

InitConc ==
    /\ fs = [p \in Paths |-> Absent]
    /\ opens = [p \in Paths |-> 0]
    /\ output_dir = Dir
    /\ dir_ok = TRUE
    /\ query_wordlist = <<>>
    /\ ProgInit("fetch")
    /\ RerunIdle
    /\ LoadIdle
    /\ ConcIdle

CPath(p) == FilePath(output_dir, ccommit[p][1], ccommit[p][2])

(* Lines 108-112: the request; on a failure the call returns None (130-131) *)
CRequest(p, commit, response) ==
    /\ cpc[p] = "idle"
    /\ ccalls[p] < MaxCalls
    /\ ccalls' = [ccalls EXCEPT ![p] = @ + 1]
    /\ ccommit' = [ccommit EXCEPT ![p] = commit]
    /\ cseen' = [cseen EXCEPT ![p] = None]
    /\ cborn' = [cborn EXCEPT ![p] =
                    fs[FilePath(output_dir, commit[1], commit[2])] # Absent]
    /\ IF RequestFails(response)
       THEN /\ cret' = [cret EXCEPT ![p] = None]
            /\ ctext' = [ctext EXCEPT ![p] = None]
            /\ UNCHANGED cpc
       ELSE /\ ctext' = [ctext EXCEPT ![p] = response.text]
            /\ cpc' = [cpc EXCEPT ![p] = "exists"]
            /\ UNCHANGED cret
    /\ UNCHANGED <<fs, opens>>

(* Line 121: os.path.exists(file_path); if it does, the call returns (129) *)
CExists(p) ==
    /\ cpc[p] = "exists"
    /\ cseen' = [cseen EXCEPT ![p] = IF fs[CPath(p)] # Absent THEN "file" ELSE Absent]
    /\ IF PathExists(fs, CPath(p))
       THEN /\ cpc' = [cpc EXCEPT ![p] = "idle"]
            /\ cret' = [cret EXCEPT ![p] = ctext[p]]
       ELSE /\ cpc' = [cpc EXCEPT ![p] = "open"]
            /\ UNCHANGED cret
    /\ UNCHANGED <<fs, opens, ccommit, ctext, cborn, ccalls>>

(* Line 124: open(file_path, "w") creates the file or truncates it *)
COpen(p) ==
    /\ cpc[p] = "open"
    /\ fs' = WriteFile(fs, CPath(p), Empty)
    /\ opens' = [opens EXCEPT ![CPath(p)] = @ + 1]
    /\ cpc' = [cpc EXCEPT ![p] = "write"]
    /\ UNCHANGED <<ccommit, ctext, cseen, cborn, ccalls, cret>>

(* Line 125 and the end of the with block: the text is flushed from offset 0
   and the call returns it (129). Onto bytes another descriptor has flushed
   since this one's open, the file holds this text or a mix of the two. *)
CWrite(p, mixed) ==
    /\ cpc[p] = "write"
    /\ mixed => fs[CPath(p)] \notin {Empty, ctext[p]}
    /\ fs' = WriteFile(fs, CPath(p), IF mixed THEN Garbled ELSE ctext[p])
    /\ cpc' = [cpc EXCEPT ![p] = "idle"]
    /\ cret' = [cret EXCEPT ![p] = ctext[p]]
    /\ UNCHANGED <<opens, ccommit, ctext, cseen, cborn, ccalls>>

ConcRest ==
    UNCHANGED <<output_dir, dir_ok, query_wordlist, progvars, rerunvars, loadvars>>

NextConc ==
    \/ \E p \in Procs, commit \in Commits, response \in DiffResponses :
           CRequest(p, commit, response) /\ ConcRest
    \/ \E p \in Procs : CExists(p) /\ ConcRest
    \/ \E p \in Procs : COpen(p) /\ ConcRest
    \/ \E p \in Procs, mixed \in BOOLEAN : CWrite(p, mixed) /\ ConcRest

SpecConc == InitConc /\ [][NextConc]_vars

----------------------------------------------------------------------------
(* Claims checked under Spec and FairSpec *)

LastPath == FilePath(Dir, Last(calls)[1], Last(calls)[2])

\* C1: get_commit_diff never overwrites an existing output file: a file that
\* exists at a path of the output directory before a step holds the same
\* content after it, whatever the HTTP response, within one invocation and
\* across invocations.
C1_NeverOverwrites ==
    [][\A f \in Paths : fs[f] # Absent => (fs'[f] = fs[f] /\ opens'[f] = opens[f])]_vars

\* The last call returned one text while its file, older, holds another.
C1_Witness ==
    /\ output_dir = Dir
    /\ rets # <<>>
    /\ Last(rets) \in Bodies
    /\ fs[LastPath] \in Bodies
    /\ fs[LastPath] # Last(rets)

\* C2: get_commit_diff returns None exactly when the HTTP call raises or
\* answers a non-2xx status, and the response text in every other case, with
\* or without an output directory and in every filesystem state.
C2_NoneIffHttpFailure ==
    [][\A r \in DiffResponses :
          FetchDiff(r) =>
              Last(rets') = IF r.kind = "raise" \/ ~Is2xx(r.status) THEN None ELSE r.text]_vars

\* C3: on any non-2xx search response, whatever its body, query_commits
\* returns the empty list: no exception, nothing extracted, no call of
\* get_commit_diff.
C3_Non2xxSearchReturnsEmpty ==
    (search_response.kind = "response" /\ ~Is2xx(search_response.status)) =>
        /\ pc = "returned"
        /\ uncaught = None
        /\ contents = <<>>
        /\ commits = <<>>
        /\ calls = <<>>
        /\ rets = <<>>

\* A 404 whose body is a well-formed result list was answered with [].
C3_Witness ==
    /\ search_response.kind = "response"
    /\ search_response.status = 404
    /\ search_response.body.has_items
    /\ Len(search_response.body.items) = 2
    /\ \A i \in DOMAIN search_response.body.items :
           search_response.body.items[i].full_name # Missing
               /\ search_response.body.items[i].sha # Missing
    /\ pc = "returned"
    /\ contents = <<>>

(* The search response is one the claims call an HTTP failure or a well-formed
   success: a status other than 200, or a parsable body whose 'items' all have
   repository.full_name and sha *)
HttpLevelOnly(response) ==
    /\ response.kind = "response"
    /\ \/ response.status # 200
       \/ /\ response.body.json
          /\ response.body.has_items
          /\ \A i \in DOMAIN response.body.items :
                 response.body.items[i].full_name # Missing
                     /\ response.body.items[i].sha # Missing

\* C4: HTTP failures never abort the run: query_commits is called exactly once
\* per loaded term, in wordlist order; no non-200 search status and no failed
\* diff fetch ends the process (only a search request that raises, or a
\* malformed successful body, does); and the process, left at that, reaches
\* the end of the wordlist.
C4_HttpFailuresNeverAbort ==
    /\ [](searched = SubSeq(query_wordlist, 1, Len(searched)))
    /\ [](Len(searched) = IF pc \in {"main", "done"} THEN next_term - 1 ELSE next_term)
    /\ [](pc = "done" => searched = query_wordlist)
    /\ [](pc = "crashed" => ~HttpLevelOnly(search_response))
    /\ <>(pc = "done" \/ (pc = "crashed" /\ ~HttpLevelOnly(search_response)))

\* The last term of a two-term wordlist searched after a non-200 answer on
\* the first, and every diff fetch of the last one failed.
C4_Witness ==
    /\ pc = "returned"
    /\ Len(query_wordlist) = 2
    /\ query_wordlist[1] # query_wordlist[2]
    /\ searched = query_wordlist
    /\ Len(rets) = 2
    /\ \A i \in DOMAIN rets : rets[i] = None

(* The (repository, hash) pairs of a result list, in array order *)
PairsOf(items) == [i \in DOMAIN items |-> <<items[i].full_name, items[i].sha>>]

NotNone(x) == x # None

\* C6: on a successful search response query_commits calls get_commit_diff
\* once per item of 'items', in array order, and returns the texts of the
\* calls that did not return None, in that order; the N of "Managed to grab N
\* commits!" is the length of the returned list.
C6_OneFetchPerItemInOrder ==
    (search_response.kind = "response" /\ search_response.status = 200
        /\ uncaught = None) =>
        /\ Len(rets) = Len(calls)
        /\ calls = SubSeq(PairsOf(search_response.body.items), 1, Len(calls))
        /\ contents = SelectSeq(rets, NotNone)
        /\ pc = "returned" =>
               /\ calls = PairsOf(search_response.body.items)
               /\ grabbed = Len(contents)

\* Two items, the first fetch failed, the second did not: one text returned.
C6_Witness ==
    /\ pc = "returned"
    /\ search_response.status = 200
    /\ Len(calls) = 2
    /\ rets[1] = None
    /\ rets[Len(rets)] # None
    /\ contents = <<rets[Len(rets)]>>
    /\ grabbed = 1

(* <repository with '/' replaced by '_'>_<hash>.txt in the output directory,
   written out for the commits of the model *)
NamedFile(commit) ==
    CASE commit = <<RepoA, HashD>> ->
             <<Dir, "/", "a", "_", "b", "_", "c", "_", "d", ".", "t", "x", "t">>
      [] commit = <<RepoB, HashE>> ->
             <<Dir, "/", "a", "_", "b", "_", "c", "_", "e", ".", "t", "x", "t">>

Malformed(response) ==
    /\ response.kind = "response"
    /\ response.status = 200
    /\ response.body.json
    /\ \/ ~response.body.has_items
       \/ \E i \in DOMAIN response.body.items :
              response.body.items[i].full_name = Missing
                  \/ response.body.items[i].sha = Missing

\* C10: a malformed successful search response is fatal: the lookup failure
\* leaves query_commits uncaught and ends the process; no diff of that
\* response has been fetched, and the process takes no further step (no later
\* term is searched, no file written) until the tool is invoked anew.
C10_MalformedIsFatal ==
    /\ [](Malformed(search_response) =>
              /\ pc = "crashed"
              /\ uncaught = "KeyError"
              /\ calls = <<>>
              /\ rets = <<>>
              /\ Len(searched) = next_term)
    /\ [][pc' = "crashed" => fs' = fs]_vars
    /\ [][pc = "crashed" => (pc' = "main" /\ searched' = <<>> /\ fs' = fs)]_vars

\* The second item lacks a key; the first, well-formed, was not fetched, and
\* the second term of the wordlist is never searched.
C10_Witness ==
    /\ pc = "crashed"
    /\ uncaught = "KeyError"
    /\ Len(search_response.body.items) = 2
    /\ search_response.body.items[1].full_name # Missing
    /\ search_response.body.items[1].sha # Missing
    /\ search_response.body.items[2].sha = Missing
    /\ calls = <<>>
    /\ next_term = 1
    /\ Len(query_wordlist) = 2

----------------------------------------------------------------------------
(* Claims checked under SpecRerun, SpecLoad and SpecConc *)

LineCount(text) ==
    Cardinality({i \in DOMAIN text : text[i] = Newline})
        + (IF text # <<>> /\ text[Len(text)] # Newline THEN 1 ELSE 0)

RECURSIVE LinesBefore(_, _)
LinesBefore(files, k) ==
    IF k <= 1 THEN 0 ELSE LinesBefore(files, k - 1) + LineCount(files[k - 1])

RECURSIVE JoinLines(_)
JoinLines(lines) ==
    IF lines = <<>> THEN <<>>
    ELSE IF Len(lines) = 1 THEN lines[1]
    ELSE lines[1] \o <<Newline>> \o JoinLines(Tail(lines))

WithoutFinalNewline(text) ==
    IF text # <<>> /\ text[Len(text)] = Newline THEN SubSeq(text, 1, Len(text) - 1)
    ELSE text

C9_CheckProtectsOnlySequentialCalls ==
    \A p \in Procs :
        cpc[p] \in {"open", "write"} => (cseen[p] = Absent /\ ~cborn[p])

\* Both processes found the file of the same commit absent, both opened it
\* for writing and both wrote it: the second open truncated an existing file.
C9_Witness ==
    /\ \A p \in Procs : cpc[p] = "idle" /\ ccalls[p] = 1 /\ cseen[p] = Absent
    /\ \A p \in Procs : ccommit[p] = <<RepoA, HashD>> /\ cret[p] = ctext[p]
    /\ opens[FilePath(Dir, RepoA, HashD)] = 2
    /\ fs[FilePath(Dir, RepoA, HashD)] \in Bodies

====
